---------------------------- MODULE Spec2Model ----------------------------
(***************************************************************************)
(* PyNAM: the translation of a binary neural associative memory (BiNAM)    *)
(* into a spiking network, the spike encoding of the input samples, the    *)
(* matching of output spikes to samples and the spatial/temporal           *)
(* demultiplexing of the results (src/pynam/binam_network.py).             *)
(*                                                                         *)
(* Matrices are sequences of rows, rows are sequences of bits, positions   *)
(* are 1-based (Python's index i is position i + 1).  Spike times are      *)
(* integers.  Sample indices and the k arguments keep Python's values.     *)
(***************************************************************************)
EXTENDS Integers, Sequences, FiniteSets, TLC

\* Largest number of samples (rows of mat_in / mat_out) explored.
MaxN == 2

\* Input and output dimensionalities explored.
InDims == {1, 2}
OutDims == {1}

Bit == {0, 1}

VARIABLES
    mat_in,     \* NetworkBuilder.mat_in: N rows of m bits
    mat_out,    \* NetworkBuilder.mat_out: N rows of n bits
    m,          \* NetworkBuilder.m
    n,          \* NetworkBuilder.n
    mem,        \* NetworkBuilder.mem: [none |-> TRUE] or a trained BiNAM
    last_k,     \* NetworkBuilder.last_k
    call_k,     \* the k argument of the most recent build_topology call
    rng,        \* state of the shared random source (np.random)
    in_call,    \* the arguments of the most recent build_input call
    net,        \* what build_input returned: input_times, input_indices,
                \* input_split (status "raised" when it raised)
    output,     \* the recorded output: one spike time list per population
    matched,    \* what match_static returned: output_times, output_indices
    analyses,   \* what build_analysis_static returned: NetworkAnalysis list
    lat,        \* what calculate_latencies returned, and for which analysis
    omat,       \* what calculate_output_matrix returned, and for which call
    topology,   \* what build_topology returned: populations, connections
    pool,       \* the NetworkPool
    added,      \* the NetworkInstances handed to add_network, in order
    old_state,  \* what initialize_seed returned: [none |-> TRUE] or a state
    seed_call   \* the initialize_seed / finalize_seed scope in progress

builderVars == <<mat_in, mat_out, m, n>>
topologyVars == <<mem, last_k, call_k, topology>>
encodeVars == <<rng, in_call, net>>
matchVars == <<output, matched>>
analysisVars == <<analyses, lat, omat>>
seedVars == <<old_state, seed_call>>
poolVars == <<pool, added>>
vars == <<mat_in, mat_out, m, n, mem, last_k, call_k, rng, in_call, net,
          output, matched, analyses, lat, omat, topology, pool, added,
          old_state, seed_call>>

\* NetworkBuilder.N = mat_in.shape[0]
N == Len(mat_in)

Rows(cnt, dim) == [1..cnt -> [1..dim -> Bit]]

(***************************************************************************)
(* binam.BiNAM: an m x n storage matrix, created all zero; train(x, y)     *)
(* superimposes the outer product of x and y (a cell never un-sets).       *)
(***************************************************************************)
BiNAM(mm, nn) == [i \in 1..mm |-> [j \in 1..nn |-> 0]]

train(W, x, y) ==
    [i \in DOMAIN W |->
        [j \in DOMAIN W[i] |->
            IF x[i] # 0 /\ y[j] # 0 THEN 1 ELSE W[i][j]]]

\* W after the calls train(mat_in[l], mat_out[l]) for l in xrange(from, to),
\* in index order (row l is position l + 1).
RECURSIVE TrainRange(_, _, _)
TrainRange(W, from, to) ==
    IF from >= to THEN W
    ELSE TrainRange(train(W, mat_in[from + 1], mat_out[from + 1]), from + 1, to)

\* "If k is smaller than zero, use the number of samples instead"
EffectiveK(k) == IF k < 0 \/ k > N THEN N ELSE k

\* A memory that is created once and kept whatever k is asked for.
ResetMemOnlyNone(k) ==
    IF mem.none THEN BiNAM(m, n) ELSE mem.W

\* The memory the training loop starts from: a fresh BiNAM when there is
\* none yet or when the memory has been trained beyond k.
ResetMem(k) ==
    IF mem.none \/ last_k > k THEN BiNAM(m, n) ELSE mem.W

\* The first sample of the training loop, xrange(self.last_k, k).
TrainFrom(k) == last_k

(***************************************************************************)
(* The network description handed to the simulator: a list of populations *)
(* (one per add_source / add_neuron call, m * s spike sources followed by  *)
(* n * s neurons) and a list of connections                                *)
(* ((source population, neuron), (target population, neuron), weight,      *)
(* delay).  With sigma_w = 0, the default, draw_weight returns w.          *)
(***************************************************************************)
Source == [kind |-> "source", spike_times |-> <<>>]
Neuron == [kind |-> "neuron", spike_times |-> <<>>]

draw_weight == "w"

in_coord(i, k, s) == <<i * s + k, 0>>
out_coord(j, k, s) == <<m * s + j * s + k, 0>>

\* [(in_coord(i, k), out_coord(j, l), t.draw_weight(), 0.0)
\*     for k in xrange(s) for l in xrange(s)]
CellConnections(i, j, s) ==
    [c \in 1..(s * s) |->
        <<in_coord(i, (c - 1) \div s, s), out_coord(j, (c - 1) % s, s),
          draw_weight, 0>>]

\* for i in xrange(self.m): for j in xrange(self.n): if self.mem[i, j] != 0
RECURSIVE ConnectionLoop(_, _, _)
ConnectionLoop(W, s, c) ==
    IF c >= m * n THEN <<>>
    ELSE (IF W[(c \div n) + 1][(c % n) + 1] # 0
          THEN CellConnections(c \div n, c % n, s) ELSE <<>>)
         \o ConnectionLoop(W, s, c + 1)

Network(W, s) ==
    [populations |-> [x \in 1..(m * s) |-> Source] \o [x \in 1..(n * s) |-> Neuron],
     connections |-> ConnectionLoop(W, s, 0)]

NoTopology == [populations |-> <<>>, connections |-> <<>>]

(***************************************************************************)
(* NetworkBuilder.build_topology(k, topology_params): brings the cached    *)
(* memory to k samples and returns the network derived from it; s is the   *)
(* multiplicity of topology_params.                                        *)
(***************************************************************************)
build_topology(karg, s) ==
    LET k == EffectiveK(karg)
        W == TrainRange(ResetMem(k), TrainFrom(k), k)
    IN /\ mem' = [none |-> FALSE, W |-> W]
       /\ last_k' = k
       /\ call_k' = karg
       /\ topology' = Network(W, s)
       /\ UNCHANGED <<builderVars, seedVars, poolVars, encodeVars, matchVars, analysisVars>>

-----------------------------------------------------------------------------
(***************************************************************************)
(* Sorting.  Spikes are records [t, k, n]: time, sample index, neuron.     *)
(* np.argsort and np.sort order by time; the arrays of this model are far  *)
(* shorter than the 16 elements up to which numpy sorts by insertion, so   *)
(* equal times keep their original order.  np.lexsort((kF, tF)) orders by  *)
(* its LAST key first: by time, and by sample index among equal times.     *)
(***************************************************************************)
Spike(t, k, u) == [t |-> t, k |-> k, n |-> u]

Before(e, x, lex) == e.t < x.t \/ (lex /\ e.t = x.t /\ e.k < x.k)

\* Number of leading elements of the sorted sequence srt that e goes after.
RECURSIVE InsertPos(_, _, _, _)
InsertPos(srt, e, lex, p) ==
    IF p > Len(srt) \/ Before(e, srt[p], lex) THEN p - 1
    ELSE InsertPos(srt, e, lex, p + 1)

Insert(srt, e, lex) ==
    LET p == InsertPos(srt, e, lex, 1) IN
    SubSeq(srt, 1, p) \o <<e>> \o SubSeq(srt, p + 1, Len(srt))

RECURSIVE SortFrom(_, _, _, _)
SortFrom(seq, lex, c, srt) ==
    IF c > Len(seq) THEN srt
    ELSE SortFrom(seq, lex, c + 1, Insert(srt, seq[c], lex))

argsort(seq) == SortFrom(seq, FALSE, 1, <<>>)
lexsort(seq) == SortFrom(seq, TRUE, 1, <<>>)

Times(seq) == [c \in DOMAIN seq |-> seq[c].t]
Samples(seq) == [c \in DOMAIN seq |-> seq[c].k]
Neurons(seq) == [c \in DOMAIN seq |-> seq[c].n]

\* np.sort of a sequence of numbers.
sort(nums) == Times(argsort([c \in DOMAIN nums |-> Spike(nums[c], 0, 0)]))

RECURSIVE SeqMin(_)
SeqMin(nums) ==
    IF Len(nums) = 1 THEN nums[1]
    ELSE LET r == SeqMin(Tail(nums)) IN IF nums[1] <= r THEN nums[1] ELSE r

RECURSIVE SeqMax(_)
SeqMax(nums) ==
    IF Len(nums) = 1 THEN nums[1]
    ELSE LET r == SeqMax(Tail(nums)) IN IF nums[1] >= r THEN nums[1] ELSE r

RECURSIVE SeqSum(_)
SeqSum(nums) == IF nums = <<>> THEN 0 ELSE nums[1] + SeqSum(Tail(nums))

-----------------------------------------------------------------------------
(***************************************************************************)
(* The shared random source np.random: a state, and draws that are a       *)
(* function of the state and advance it.  np.random.normal(mu, sigma) is   *)
(* mu + sigma * z for a standard draw z, here one of -1, 0, 1.             *)
(***************************************************************************)
RngStates == 0..3
NextRng(r) == (r + 1) % Cardinality(RngStates)
StdDraw(r) == (r % 3) - 1
normal(mu, sigma, r) == mu + sigma * StdDraw(r)

(***************************************************************************)
(* utils.initialize_seed / utils.finalize_seed: a scope in which the       *)
(* shared random source runs from a given seed.  np.random.seed(v) puts    *)
(* the source into a state that is a function of v; the arguments are      *)
(* integers, seed possibly None ([none |-> TRUE]).  seed_call records the  *)
(* arguments of the scope, the state of the source on entry, the number of *)
(* draws made inside it and how far the scope has got.                     *)
(***************************************************************************)
None == [none |-> TRUE, v |-> 0]
Some(v) == [none |-> FALSE, v |-> v]

\* long(1 << 30)
SeedModulus == 2 ^ 30

\* np.random.seed(v)
seed_state(v) == v % Cardinality(RngStates)

NoSeedCall ==
    [phase |-> "idle", seed |-> None, seq |-> 0, entry |-> 0, draws |-> 0]

InitSeed ==
    /\ old_state = None
    /\ seed_call = NoSeedCall

SeedValues == {-1, 0, 1, 3, 2 ^ 29}
SeedArgs == {None} \cup {Some(v) : v \in SeedValues}
SeqArgs == {0, 1, 2}
DrawCounts == 0..2

initialize_seed(seed, seq) ==
    /\ seed_call.phase # "scoped"
    /\ IF seed.none
         THEN /\ old_state' = None
              /\ rng' = rng
         ELSE /\ old_state' = Some(rng)
              /\ rng' = seed_state((seed.v * (seq + 1)) % SeedModulus)
    /\ seed_call' = [phase |-> "scoped", seed |-> seed, seq |-> seq,
                     entry |-> rng, draws |-> 0]
    /\ UNCHANGED <<builderVars, poolVars, topologyVars, in_call, net,
                   matchVars, analysisVars>>

\* A state that is left as it is whatever was saved.
RestoredKeep(old, r) == r

\* if (old_state != None): np.random.set_state(old_state)
Restored(old, r) == IF ~old.none THEN old.v ELSE r

finalize_seed ==
    /\ seed_call.phase = "scoped"
    /\ rng' = Restored(old_state, rng)
    /\ seed_call' = [seed_call EXCEPT !.phase = "done"]
    /\ UNCHANGED <<builderVars, poolVars, topologyVars, in_call, net,
                   matchVars, analysisVars, old_state>>

\* A draw from the shared source inside the scope.
draw ==
    /\ seed_call.phase = "scoped"
    /\ seed_call.draws + 1 \in DrawCounts
    /\ rng' = NextRng(rng)
    /\ seed_call' = [seed_call EXCEPT !.draws = @ + 1]
    /\ UNCHANGED <<builderVars, poolVars, topologyVars, in_call, net,
                   matchVars, analysisVars, old_state>>

(***************************************************************************)
(* InputParameters.build_spike_train(offs): burst_size spike times spaced  *)
(* by isi from the (possibly jittered) offset, sorted.  Returns the train  *)
(* and the state the random source is left in.                             *)
(***************************************************************************)
RECURSIVE BurstLoop(_, _, _, _, _)
BurstLoop(p, offs, i, res, r) ==
    IF i >= p.burst_size THEN [res |-> res, rng |-> r]
    ELSE LET jitter == IF p.sigma_t > 0 THEN normal(0, p.sigma_t, r) ELSE 0
             r1 == IF p.sigma_t > 0 THEN NextRng(r) ELSE r
         IN BurstLoop(p, offs, i + 1,
                      Append(res, offs + i * p.isi + jitter), r1)

build_spike_train(p, offs, r) ==
    LET offs1 == IF p.sigma_t_offs > 0 THEN normal(offs, p.sigma_t_offs, r)
                 ELSE offs
        r1 == IF p.sigma_t_offs > 0 THEN NextRng(r) ELSE r
        b == BurstLoop(p, offs1, 0, <<>>, r1)
    IN [train |-> sort(b.res), rng |-> b.rng]

-----------------------------------------------------------------------------
(***************************************************************************)
(* NetworkBuilder.build_input.                                             *)
(***************************************************************************)
\* np.sum(X, 0): the number of ones in each column of mat_in (all N rows).
ColumnSum(i) == SeqSum([l \in 1..N |-> mat_in[l][i]])

\* max_num_spikes: over all parameter sets, np.max(np.sum(X, 0)) * b
max_num_spikes(params) ==
    SeqSum([pi \in DOMAIN params |->
        SeqMax([i \in 1..m |-> ColumnSum(i)]) * params[pi].burst_size])

\* T[x, lo:lo+b] = train (and K[x, lo:lo+b] = sIdx as a constant train)
SliceAssign(row, lo, vals) ==
    [c \in DOMAIN row |->
        IF c > lo /\ c <= lo + Len(vals) THEN vals[c - lo] ELSE row[c]]

\* min_t = np.min([min_t, np.min(train)]), min_t starting at np.inf
MinT(st, tr) ==
    IF st.min_inf THEN SeqMin(tr)
    ELSE IF SeqMin(tr) < st.min_t THEN SeqMin(tr) ELSE st.min_t

\* for j in xrange(s): draw a train for unit i * s + j and store it
RECURSIVE UnitLoop(_, _, _, _, _)
UnitLoop(st, p, s, i, j) ==
    IF j >= s THEN st
    ELSE LET bt == build_spike_train(p, st.t, st.rng)
             x == i * s + j + 1
             b == p.burst_size
         IN UnitLoop(
              [st EXCEPT
                 !.min_t = MinT(st, bt.train),
                 !.min_inf = FALSE,
                 !.T[x] = SliceAssign(@, st.N[i + 1], bt.train),
                 !.K[x] = SliceAssign(@, st.N[i + 1], [c \in 1..b |-> st.sIdx]),
                 !.rng = bt.rng],
              p, s, i, j + 1)

\* for i in xrange(self.m): if X[l, i] != 0: ...; N[i] = N[i] + b
RECURSIVE BitLoop(_, _, _, _, _)
BitLoop(st, p, s, l, i) ==
    IF i >= m THEN st
    ELSE IF mat_in[l + 1][i + 1] # 0
         THEN LET st1 == UnitLoop(st, p, s, i, 0) IN
              BitLoop([st1 EXCEPT !.N[i + 1] = @ + p.burst_size],
                      p, s, l, i + 1)
         ELSE BitLoop(st, p, s, l, i + 1)

\* for l in xrange(k): ...; sIdx = sIdx + 1; t = t + p["time_window"]
RECURSIVE SampleLoop(_, _, _, _, _)
SampleLoop(st, p, s, k, l) ==
    IF l >= k THEN st
    ELSE LET st1 == BitLoop(st, p, s, l, 0) IN
         SampleLoop([st1 EXCEPT !.sIdx = @ + 1, !.t = @ + p.time_window],
                    p, s, k, l + 1)

\* for ip in input_params: ...; t = t + p["time_window"] * input_params_delay
RECURSIVE ParamLoop(_, _, _, _, _, _)
ParamLoop(st, params, s, k, delay, pi) ==
    IF pi > Len(params) THEN st
    ELSE LET st1 == SampleLoop(st, params[pi], s, k, 0) IN
         ParamLoop([st1 EXCEPT !.t = @ + params[pi].time_window * delay],
                   params, s, k, delay, pi + 1)

\* range(start, stop, step) for a step >= 0; a step of zero raises ValueError
RECURSIVE range(_, _, _)
range(start, stop, step) ==
    IF start >= stop THEN <<>>
    ELSE <<start>> \o range(start + step, stop, step)

RangeRaises(step) == step = 0

\* A descriptor that stops one block short.
InputSplitShort(k, params) == range(k, k * Len(params), k)

\* "Sample indices at which new input parameter sets start"
InputSplit(k, params) == range(k, k * (Len(params) + 1), k)

\* An extraction that sorts the times but leaves the indices in the order
\* they were written.
ExtractUnitTimesOnly(st, time_offs, s, x) ==
    LET i == (x - 1) \div s
        cnt == st.N[i + 1]
        srt == argsort([c \in 1..cnt |->
                          Spike(st.T[x][c] - st.min_t + time_offs, 0, 0)])
    IN [c \in 1..cnt |-> Spike(srt[c].t, st.K[x][c], 0)]

\* "Extract a list of times and indices for each neuron": the first N[i]
\* entries of row x in the order of np.argsort of the times
ExtractUnit(st, time_offs, s, x) ==
    LET i == (x - 1) \div s
        cnt == st.N[i + 1]
    IN argsort([c \in 1..cnt |->
                  Spike(st.T[x][c] - st.min_t + time_offs, st.K[x][c], 0)])

EncodeResult(karg, s, params, time_offs, delay) ==
    LET k == EffectiveK(karg)
        cap == max_num_spikes(params)
        st0 == [T |-> [x \in 1..(s * m) |-> [c \in 1..cap |-> 0]],
                K |-> [x \in 1..(s * m) |-> [c \in 1..cap |-> 0]],
                N |-> [i \in 1..m |-> 0],
                t |-> 0, sIdx |-> 0, min_t |-> 0, min_inf |-> TRUE,
                rng |-> rng]
        st == ParamLoop(st0, params, s, k, delay, 1)
        unit == [x \in 1..(s * m) |-> ExtractUnit(st, time_offs, s, x)]
    IN [status |-> IF RangeRaises(k) THEN "raised" ELSE "ok",
        input_times |-> [x \in 1..(s * m) |-> Times(unit[x])],
        input_indices |-> [x \in 1..(s * m) |-> Samples(unit[x])],
        input_split |-> IF RangeRaises(k) THEN <<>> ELSE InputSplit(k, params),
        rng |-> st.rng]

\* The default of build_input's input_params_delay.
input_params_delay == 10

NoNet == [status |-> "none", input_times |-> <<>>, input_indices |-> <<>>,
          input_split |-> <<>>]
NoCall == [k |-> 0, s |-> 0, params |-> <<>>, time_offs |-> 0]
NoOutput == [status |-> "none", pops |-> <<>>]
NoMatch == [status |-> "none", output_times |-> <<>>, output_indices |-> <<>>]
NoAnalyses == [status |-> "none", input_split |-> <<>>, list |-> <<>>]
NoLat == [status |-> "none", of |-> 0, res |-> <<>>]
NoMat == [status |-> "none", of |-> 0, s |-> 0, output_burst_size |-> 0,
          res |-> <<>>]

\* The three values build_input returns, none of them when it raised.
Returned(r) ==
    [status |-> r.status,
     input_times |-> IF r.status = "ok" THEN r.input_times ELSE <<>>,
     input_indices |-> IF r.status = "ok" THEN r.input_indices ELSE <<>>,
     input_split |-> r.input_split]

\* build_input(k, time_offs, topology_params, input_params,
\* input_params_delay); a call that raises leaves no result but has drawn
\* from the random source.  build_input reads the builder's fields, which
\* it never changes, and the random source, whose every state is an
\* initial state: one call per behaviour reaches every result.
build_input(karg, s, params, time_offs, delay) ==
    LET r == EncodeResult(karg, s, params, time_offs, delay) IN
    /\ net.status = "none"
    /\ net' = Returned(r)
    /\ rng' = r.rng
    /\ in_call' = [k |-> karg, s |-> s, params |-> params,
                   time_offs |-> time_offs]
    /\ output' = NoOutput
    /\ matched' = NoMatch
    /\ UNCHANGED <<builderVars, seedVars, poolVars, topologyVars, analysisVars>>

\* topology["populations"][i]["params"]["spike_times"] = times[i]
inject_input(topo, times) ==
    [topo EXCEPT !.populations =
        [x \in DOMAIN @ |->
            IF x <= Len(times) THEN [@[x] EXCEPT !.spike_times = times[x]]
            ELSE @[x]]]

\* NetworkBuilder.build(k, time_offs, topology_params, input_params):
\* build_topology, then build_input with the default delay, then the
\* injection of the input spikes.  When build_input raises the memory has
\* been trained and nothing is returned.
build(karg, s, params, time_offs) ==
    LET k == EffectiveK(karg)
        W == TrainRange(ResetMem(k), TrainFrom(k), k)
        r == EncodeResult(karg, s, params, time_offs, input_params_delay)
    IN /\ net.status = "none"
       /\ mem' = [none |-> FALSE, W |-> W]
       /\ last_k' = k
       /\ call_k' = karg
       /\ topology' = IF r.status = "ok"
                      THEN inject_input(Network(W, s), r.input_times)
                      ELSE NoTopology
       /\ net' = Returned(r)
       /\ rng' = r.rng
       /\ in_call' = [k |-> karg, s |-> s, params |-> params,
                      time_offs |-> time_offs]
       /\ output' = NoOutput
       /\ matched' = NoMatch
       /\ UNCHANGED <<builderVars, seedVars, poolVars, analysisVars>>

-----------------------------------------------------------------------------
(***************************************************************************)
(* NetworkInstance.flaten, match_static.                                   *)
(***************************************************************************)
\* The flat arrays before sorting: every spike of every neuron, neuron by
\* neuron (nF[c] = i is Python's 0-based neuron index).
RECURSIVE FlatFrom(_, _, _)
FlatFrom(times, indices, i) ==
    IF i > Len(times) THEN <<>>
    ELSE [c \in 1..Len(times[i]) |-> Spike(times[i][c], indices[i][c], i - 1)]
         \o FlatFrom(times, indices, i + 1)

\* "Sort the arrays by spike time or sample"
flaten(times, indices, sort_by_sample) ==
    IF sort_by_sample THEN lexsort(FlatFrom(times, indices, 1))
    ELSE argsort(FlatFrom(times, indices, 1))

\* reduce(lambda x, y: x + y, map(len, times)) raises TypeError on no neurons
FlatenRaises(times) == Len(times) = 0

\* bisect.bisect_left / bisect_right of the standard library, as they run
\* on any array, sorted or not; a[mid] is position mid + 1.
RECURSIVE bisect_left_from(_, _, _, _)
bisect_left_from(a, x, lo, hi) ==
    IF lo >= hi THEN lo
    ELSE LET mid == (lo + hi) \div 2 IN
         IF a[mid + 1] < x THEN bisect_left_from(a, x, mid + 1, hi)
         ELSE bisect_left_from(a, x, lo, mid)

bisect_left(a, x) == bisect_left_from(a, x, 0, Len(a))

RECURSIVE bisect_right_from(_, _, _, _)
bisect_right_from(a, x, lo, hi) ==
    IF lo >= hi THEN lo
    ELSE LET mid == (lo + hi) \div 2 IN
         IF x < a[mid + 1] THEN bisect_right_from(a, x, lo, mid)
         ELSE bisect_right_from(a, x, mid + 1, hi)

bisect_right(a, x) == bisect_right_from(a, x, 0, Len(a))

\* The position in tIn that an output spike at time t is matched to.
MatchIdx(tIn, t) ==
    LET idx == bisect_left(tIn, t) IN IF idx > 0 THEN idx - 1 ELSE idx

\* A decoder that gives sample 0 to a spike nothing precedes, instead of
\* reading kIn[0].
MatchIndexZeroDefault(tIn, kIn, t) ==
    LET idx == bisect_left(tIn, t) IN IF idx > 0 THEN kIn[idx] ELSE 0

\* The sample index of an output spike at time t: kIn[idx] if idx is a
\* position of tIn, else the 0 the list was initialised with.
MatchIndex(tIn, kIn, t) ==
    LET idx == MatchIdx(tIn, t) IN
    IF idx < Len(tIn) THEN kIn[idx + 1] ELSE 0

\* output_count = len(output) - input_count; xrange of a negative count is
\* empty.
OutputCount(input_times, pops) ==
    IF Len(pops) - Len(input_times) < 0 THEN 0
    ELSE Len(pops) - Len(input_times)

match_static(input_times, input_indices, pops) ==
    IF FlatenRaises(input_times) THEN
        [status |-> "raised", output_times |-> <<>>, output_indices |-> <<>>]
    ELSE
        LET f == flaten(input_times, input_indices, FALSE)
            tIn == Times(f)
            kIn == Samples(f)
            input_count == Len(input_times)
            output_count == OutputCount(input_times, pops)
            output_times == [i \in 1..output_count |-> pops[i + input_count]]
        IN [status |-> "ok",
            output_times |-> output_times,
            output_indices |->
                [i \in 1..output_count |->
                    [j \in 1..Len(output_times[i]) |->
                        MatchIndex(tIn, kIn, output_times[i][j])]]]

\* NetworkInstance.match(output)
match ==
    /\ net.status = "ok"
    /\ output.status = "ok"
    /\ matched.status = "none"
    /\ matched' = match_static(net.input_times, net.input_indices, output.pops)
    /\ UNCHANGED <<builderVars, seedVars, poolVars, topologyVars, encodeVars, output, analysisVars>>

\* The recording of a run in which every output neuron x repeats the spike
\* times of input neuron x: input populations first (spike sources record
\* nothing), output populations last.
EchoOutput == [x \in 1..Len(net.input_times) |-> <<>>] \o net.input_times

echo ==
    /\ net.status = "ok"
    /\ output.status = "none"
    /\ output' = [status |-> "ok", pops |-> EchoOutput]
    /\ UNCHANGED <<builderVars, seedVars, poolVars, topologyVars, encodeVars, matched, analysisVars>>

-----------------------------------------------------------------------------
(***************************************************************************)
(* NetworkInstance.split, build_analysis_static.                           *)
(***************************************************************************)
\* The positions j of a neuron's spikes with k0 <= indices[i][j] < k1.
SplitKeep(idx, k0, k1) == {j \in DOMAIN idx : idx[j] >= k0 /\ idx[j] < k1}

\* A split that keeps the global sample index.
RebaseNone(k, k0) == k

\* The sample index stored for a kept spike.
Rebase(k, k0) == k - k0

\* The c-th smallest element of a set of positions.
RECURSIVE NthOf(_, _)
NthOf(S, c) ==
    LET lo == CHOOSE j \in S : \A o \in S : j <= o IN
    IF c = 1 THEN lo ELSE NthOf(S \ {lo}, c - 1)

split(times, indices, k0, k1) ==
    LET keep(i) == SplitKeep(indices[i], k0, k1) IN
    [times_part |->
        [i \in 1..Len(times) |->
            [c \in 1..Cardinality(keep(i)) |-> times[i][NthOf(keep(i), c)]]],
     indices_part |->
        [i \in 1..Len(times) |->
            [c \in 1..Cardinality(keep(i)) |->
                Rebase(indices[i][NthOf(keep(i), c)], k0)]]]

\* max(map(max, input_indices)) raises ValueError when there is no neuron or
\* a neuron without spikes.
DefaultSplitRaises(input_indices) ==
    Len(input_indices) = 0 \/ \E i \in DOMAIN input_indices : input_indices[i] = <<>>

\* "Only assume a single split if no input_split descriptor is given"
DefaultSplit(input_indices) ==
    <<SeqMax([i \in DOMAIN input_indices |-> SeqMax(input_indices[i])]) + 1>>

NetworkAnalysis(input_times, input_indices, output_times, output_indices) ==
    [input_times |-> input_times, input_indices |-> input_indices,
     output_times |-> output_times, output_indices |-> output_indices]

\* for k in input_split: one NetworkAnalysis for [k0, k); k0 = k
RECURSIVE SplitLoop(_, _, _, _, _, _)
SplitLoop(input_times, input_indices, mt, input_split, c, k0) ==
    IF c > Len(input_split) THEN <<>>
    ELSE LET k == input_split[c]
             i == split(input_times, input_indices, k0, k)
             o == split(mt.output_times, mt.output_indices, k0, k)
         IN <<NetworkAnalysis(i.times_part, i.indices_part,
                              o.times_part, o.indices_part)>>
            \o SplitLoop(input_times, input_indices, mt, input_split, c + 1, k)

build_analysis_static(input_times, input_indices, pops, input_split) ==
    LET mt == match_static(input_times, input_indices, pops) IN
    IF mt.status = "raised"
       \/ (Len(input_split) = 0 /\ DefaultSplitRaises(input_indices))
    THEN [status |-> "raised", input_split |-> input_split, list |-> <<>>]
    ELSE LET sp == IF Len(input_split) = 0 THEN DefaultSplit(input_indices)
                   ELSE input_split
         IN [status |-> "ok", input_split |-> input_split,
             list |-> SplitLoop(input_times, input_indices, mt, sp, 1, 0)]

\* NetworkInstance.build_analysis(output) passes the instance's own
\* input_split; the static method takes any descriptor.
build_analysis(input_split) ==
    /\ net.status = "ok"
    /\ output.status = "ok"
    /\ analyses.status = "none"
    /\ analyses' = build_analysis_static(net.input_times, net.input_indices,
                                         output.pops, input_split)
    /\ matched' = match_static(net.input_times, net.input_indices, output.pops)
    /\ UNCHANGED <<builderVars, seedVars, poolVars, topologyVars, encodeVars, output, lat, omat>>

-----------------------------------------------------------------------------
(***************************************************************************)
(* NetworkAnalysis.calculate_latencies, calculate_output_matrix.           *)
(***************************************************************************)
Inf == [inf |-> TRUE, v |-> 0]
Finite(v) == [inf |-> FALSE, v |-> v]

\* The latency of sample k from the flat arrays.
Latency(fIn, fOut, k) ==
    LET kIn == Samples(fIn)
        kOut == Samples(fOut)
        iInK == bisect_right(kIn, k) - 1
        iOutK == bisect_right(kOut, k) - 1
    IN IF iInK < 0 \/ iOutK < 0 \/ kIn[iInK + 1] # k \/ kOut[iOutK + 1] # k
       THEN Inf
       ELSE Finite(fOut[iOutK + 1].t - fIn[iInK + 1].t)

\* flaten raises without neurons, np.max(kIn) raises without input spikes
LatenciesRaise(a) ==
    \/ FlatenRaises(a.input_times)
    \/ FlatenRaises(a.output_times)
    \/ \A i \in DOMAIN a.input_times : a.input_times[i] = <<>>

calculate_latencies(a) ==
    IF LatenciesRaise(a) THEN [status |-> "raised", res |-> <<>>]
    ELSE LET fIn == flaten(a.input_times, a.input_indices, TRUE)
             fOut == flaten(a.output_times, a.output_indices, TRUE)
             cnt == SeqMax(Samples(fIn)) + 1
         IN [status |-> "ok",
             res |-> [c \in 1..cnt |-> Latency(fIn, fOut, c - 1)]]

\* N = max(map(lambda ks: max(ks + [0]), self["input_indices"])) + 1
SampleCount(input_indices) ==
    SeqMax([i \in DOMAIN input_indices |-> SeqMax(input_indices[i] \o <<0>>)]) + 1

\* The column an output spike of neuron nOut (0-based) is counted in.
OutputColumn(nOut, s) == nOut \div s

\* "Scale the result matrix according to the output_burst_size": the entry
\* is the fraction num / den.
Scale(count, s, output_burst_size) == [num |-> count, den |-> output_burst_size]

\* The flat positions (0-based) counted for sample k: xrange(i0, i1)
CountedPositions(kOut, k) ==
    {i \in 0..(Len(kOut) - 1) : i >= bisect_left(kOut, k) /\ i < bisect_right(kOut, k)}

\* res[k, nOut[i] // s] raises IndexError for a column >= n
MatrixRaises(a, s) ==
    \/ FlatenRaises(a.output_times)
    \/ Len(a.input_indices) = 0
    \/ LET fOut == flaten(a.output_times, a.output_indices, TRUE)
           cols == Len(a.output_indices) \div s
       IN \E k \in 0..(SampleCount(a.input_indices) - 1) :
            \E i \in CountedPositions(Samples(fOut), k) :
                OutputColumn(fOut[i + 1].n, s) >= cols

calculate_output_matrix(a, s, output_burst_size) ==
    IF MatrixRaises(a, s) THEN [status |-> "raised", res |-> <<>>]
    ELSE LET fOut == flaten(a.output_times, a.output_indices, TRUE)
             rows == SampleCount(a.input_indices)
             cols == Len(a.output_indices) \div s
         IN [status |-> "ok",
             res |-> [r \in 1..rows |-> [j \in 1..cols |->
                Scale(Cardinality(
                        {i \in CountedPositions(Samples(fOut), r - 1) :
                            OutputColumn(fOut[i + 1].n, s) = j - 1}),
                      s, output_burst_size)]]]

latencies(i) ==
    /\ analyses.status = "ok"
    /\ lat.status = "none" /\ omat.status = "none"
    /\ i \in DOMAIN analyses.list
    /\ lat' = [of |-> i] @@ calculate_latencies(analyses.list[i])
    /\ UNCHANGED <<builderVars, seedVars, poolVars, topologyVars, encodeVars, matchVars,
                   analyses, omat>>

output_matrix(i, s, output_burst_size) ==
    /\ analyses.status = "ok"
    /\ lat.status = "none" /\ omat.status = "none"
    /\ i \in DOMAIN analyses.list
    /\ omat' = [of |-> i, s |-> s, output_burst_size |-> output_burst_size]
               @@ calculate_output_matrix(analyses.list[i], s, output_burst_size)
    /\ UNCHANGED <<builderVars, seedVars, poolVars, topologyVars, encodeVars, matchVars,
                   analyses, lat>>

-----------------------------------------------------------------------------
(***************************************************************************)
(* The simulation run (external): it returns one recording per population, *)
(* input populations first, output populations last.  Output spikes fall   *)
(* at or right after an input spike, or at time zero.                      *)
(***************************************************************************)
\* The numbers of spikes a run records in total.
RecordedSpikes == {0, 1, 2}
MostSpikes == CHOOSE c \in RecordedSpikes : \A o \in RecordedSpikes : o <= c

RECURSIVE SortedSeqOf(_)
SortedSeqOf(S) ==
    IF S = {} THEN <<>>
    ELSE LET lo == CHOOSE t \in S : \A o \in S : t <= o IN
         <<lo>> \o SortedSeqOf(S \ {lo})

TimesOf(trains) ==
    UNION {{trains[x][c] : c \in DOMAIN trains[x]} : x \in DOMAIN trains}

OutputTimes(trains) ==
    {0} \cup TimesOf(trains) \cup {t + 1 : t \in TimesOf(trains)}

\* The sets of at most len (population, time) pairs.
RECURSIVE SpikeSets(_, _)
SpikeSets(slots, len) ==
    IF len = 0 THEN {{}}
    ELSE LET fewer == SpikeSets(slots, len - 1) IN
         fewer \cup {S \cup {sl} : S \in fewer, sl \in slots}

\* The recordings of count populations in which the populations of the set
\* neurons spike RecordedSpikes times in total, each one's times in
\* increasing order; a spike source records nothing.
Recordings(count, neurons, cands) ==
    {[x \in 1..count |-> SortedSeqOf({sl[2] : sl \in {sl \in S : sl[1] = x}})] :
        S \in {S \in SpikeSets(neurons \X cands, MostSpikes) :
                  Cardinality(S) \in RecordedSpikes}}

\* The network of build_topology has m * s spike sources followed by n * s
\* output neurons.
run ==
    /\ net.status = "ok"
    /\ output.status = "none"
    /\ added = <<>>
    /\ LET count == Len(net.input_times) + n * in_call.s IN
       \E f \in Recordings(count, (Len(net.input_times) + 1)..count,
                            OutputTimes(net.input_times)) :
            output' = [status |-> "ok", pops |-> f]
    /\ UNCHANGED <<builderVars, seedVars, poolVars, topologyVars, encodeVars, matched, analysisVars>>

\* The populations the network declares: the input units followed by the
\* n * s output neurons.
DeclaredCount == Len(net.input_times) + n * in_call.s

\* An output list handed to match / build_analysis need not come from a run
\* of the declared network: it may hold one population less or one more.
OutputLengths == {c \in {DeclaredCount - 1, DeclaredCount, DeclaredCount + 1} : c >= 0}

run_any ==
    /\ net.status = "ok"
    /\ output.status = "none"
    /\ added = <<>>
    /\ \E count \in OutputLengths :
        \E f \in Recordings(count, (Len(net.input_times) + 1)..count,
                             OutputTimes(net.input_times)) :
            output' = [status |-> "ok", pops |-> f]
    /\ UNCHANGED <<builderVars, seedVars, poolVars, topologyVars, encodeVars, matched, analysisVars>>

-----------------------------------------------------------------------------
(***************************************************************************)
(* NetworkPool: the spatial multiplex of several networks.  The pool is    *)
(* the first one constructed, NetworkPool(): all of its lists are empty.   *)
(***************************************************************************)
EmptyPool ==
    [populations |-> <<>>, connections |-> <<>>, input_times |-> <<>>,
     input_indices |-> <<>>, input_split |-> <<>>, spatial_split |-> <<>>]

\* NetworkInstance(topology, input_times=, input_indices=, input_split=)
NetworkInstance(topo, nt) ==
    [populations |-> topo.populations, connections |-> topo.connections,
     input_times |-> nt.input_times, input_indices |-> nt.input_indices,
     input_split |-> nt.input_split]

\* A re-basing that moves the source end only.
RebaseSourceOnly(c, nP0) == <<<<c[1][1] + nP0, c[1][2]>>, c[2], c[3], c[4]>>

\* ((c[0][0] + nP0, c[0][1]), (c[1][0] + nP0, c[1][1]), c[2], c[3])
RebaseConnection(c, nP0) ==
    <<<<c[1][1] + nP0, c[1][2]>>, <<c[2][1] + nP0, c[2][2]>>, c[3], c[4]>>

\* {"population": nP1, "input": nI1}
SpatialSplit(nP1, nI1) == [population |-> nP1, input |-> nI1]

AddNetwork(p, network) ==
    LET nP0 == Len(p.populations)
        nC0 == Len(p.connections)
        populations == p.populations \o network.populations
        connections == p.connections \o network.connections
        input_times == p.input_times \o network.input_times
    IN [populations |-> populations,
        connections |->
            [i \in DOMAIN connections |->
                IF i > nC0 THEN RebaseConnection(connections[i], nP0)
                ELSE connections[i]],
        input_times |-> input_times,
        input_indices |-> p.input_indices \o network.input_indices,
        input_split |-> Append(p.input_split, network.input_split),
        spatial_split |->
            Append(p.spatial_split,
                   SpatialSplit(Len(populations), Len(input_times)))]

\* The numbers of networks a pool is filled with.
PoolSizes == {1, 2}

\* pool.add_network(instance) for the instance build just returned, which
\* the caller hands over to the pool.
add_network ==
    /\ net.status = "ok"
    /\ topology # NoTopology
    /\ output.status = "none"
    /\ Len(added) + 1 \in PoolSizes
    /\ pool' = AddNetwork(pool, NetworkInstance(topology, net))
    /\ added' = Append(added, NetworkInstance(topology, net))
    /\ net' = NoNet
    /\ UNCHANGED <<builderVars, seedVars, topologyVars, rng, in_call, matchVars, analysisVars>>

\* A slice that ignores its lower end (last_split never advanced).
SliceFromStart(seq, lo, hi) == SubSeq(seq, 1, IF hi > Len(seq) THEN Len(seq) ELSE hi)

\* seq[lo:hi] for 0 <= lo
Slice(seq, lo, hi) == SubSeq(seq, lo + 1, IF hi > Len(seq) THEN Len(seq) ELSE hi)

\* for i, split in enumerate(self["spatial_split"]): ...; last_split = split
RECURSIVE SpatialLoop(_, _, _, _)
SpatialLoop(p, pops, i, last_split) ==
    IF i > Len(p.spatial_split) THEN [status |-> "ok", list |-> <<>>]
    ELSE LET sp == p.spatial_split[i]
             input_split == IF i <= Len(p.input_split) THEN p.input_split[i]
                            ELSE <<>>
             r == build_analysis_static(
                    Slice(p.input_times, last_split.input, sp.input),
                    Slice(p.input_indices, last_split.input, sp.input),
                    Slice(pops, last_split.population, sp.population),
                    input_split)
             rest == SpatialLoop(p, pops, i + 1, sp)
         IN IF r.status = "raised" \/ rest.status = "raised"
            THEN [status |-> "raised", list |-> <<>>]
            ELSE [status |-> "ok", list |-> r.list \o rest.list]

\* NetworkPool.build_analysis(output)
pool_build_analysis ==
    /\ added # <<>>
    /\ output.status = "ok"
    /\ analyses.status = "none"
    /\ analyses' = [input_split |-> <<>>]
                    @@ SpatialLoop(pool, output.pops, 1, SpatialSplit(0, 0))
    /\ UNCHANGED <<builderVars, seedVars, poolVars, topologyVars, encodeVars, matchVars,
                   lat, omat>>

\* The run of the pooled network: one recording per population of the pool.
run_pool ==
    /\ added # <<>>
    /\ net.status = "none"
    /\ output.status = "none"
    /\ \E f \in Recordings(Len(pool.populations),
                            {x \in DOMAIN pool.populations :
                                pool.populations[x].kind = "neuron"},
                            OutputTimes(pool.input_times)) :
            output' = [status |-> "ok", pops |-> f]
    /\ UNCHANGED <<builderVars, seedVars, poolVars, topologyVars, encodeVars, matched, analysisVars>>

(***************************************************************************)
(* Input parameter sets.  sigma_t = sigma_t_offs = 0 disables the jitter.  *)
(***************************************************************************)
InputParameters(b, tw, isi, st, so) ==
    [burst_size |-> b, time_window |-> tw, isi |-> isi,
     sigma_t |-> st, sigma_t_offs |-> so]

PSingle == InputParameters(1, 2, 1, 0, 0)
PBurst == InputParameters(2, 4, 1, 0, 0)
POverlap == InputParameters(2, 2, 3, 0, 0)
PJitter == InputParameters(1, 2, 1, 1, 0)
PJitterBurst == InputParameters(2, 4, 1, 1, 1)

ParamLists ==
    {<<PSingle>>, <<PBurst>>, <<POverlap>>, <<PJitter>>, <<PJitterBurst>>,
     <<PSingle, PBurst>>, <<POverlap, PSingle>>}

Multiplicities == {1, 2}
TimeOffs == {0, 1}

JitterDisabled(params) ==
    \A pi \in DOMAIN params :
        params[pi].sigma_t = 0 /\ params[pi].sigma_t_offs = 0

KArgs == -1..(MaxN + 1)

\* NetworkBuilder.__init__: mat_in and mat_out have the same number of rows.
InitBuilder ==
    /\ m \in InDims
    /\ n \in OutDims
    /\ \E cnt \in 0..MaxN :
        /\ mat_in \in Rows(cnt, m)
        /\ mat_out \in Rows(cnt, n)

\* The class attributes mem = None, last_k = 0.
InitMem ==
    /\ mem = [none |-> TRUE, W |-> <<>>]
    /\ last_k = 0
    /\ call_k = -1
    /\ topology = NoTopology

InitEncode ==
    /\ in_call = NoCall
    /\ net = NoNet

InitMatch ==
    /\ pool = EmptyPool
    /\ added = <<>>
    /\ output = NoOutput
    /\ matched = NoMatch
    /\ analyses = NoAnalyses
    /\ lat = NoLat
    /\ omat = NoMat

InitTopology ==
    /\ InitBuilder
    /\ InitMem
    /\ rng = 0
    /\ InitEncode
    /\ InitMatch
    /\ InitSeed

NextTopology ==
    \E karg \in KArgs, s \in Multiplicities : build_topology(karg, s)

SpecTopology == InitTopology /\ [][NextTopology]_vars

(***************************************************************************)
(* The encoder: build_input with any arguments, on any state of the        *)
(* random source, and the decoding of its own spikes.  build_input does    *)
(* not read mat_out.                                                       *)
(***************************************************************************)
InitEncoder ==
    /\ InitBuilder
    /\ \A l \in 1..N : \A j \in 1..n : mat_out[l][j] = 0
    /\ InitMem
    /\ rng \in RngStates
    /\ InitEncode
    /\ InitMatch
    /\ InitSeed

NextEncoder ==
    \/ \E karg \in KArgs, s \in Multiplicities, params \in ParamLists,
          time_offs \in TimeOffs :
            build_input(karg, s, params, time_offs, input_params_delay)
    \/ echo
    \/ match

SpecEncoder == InitEncoder /\ [][NextEncoder]_vars

(***************************************************************************)
(* The decoder and the analysis: a network instance built without jitter,  *)
(* its run, the matching of the output spikes, the temporal split and the  *)
(* evaluation of one of the resulting NetworkAnalysis instances.           *)
(***************************************************************************)
RunParamLists == {<<POverlap>>, <<PSingle, PSingle>>}
RunTimeOffs == {1}
SplitChoices == {<<1, 3>>}
BurstSizes == {1, 2}

Init ==
    /\ InitBuilder
    /\ \A l \in 1..N : \A j \in 1..n : mat_out[l][j] = 0
    /\ InitMem
    /\ rng = 0
    /\ InitEncode
    /\ InitMatch
    /\ InitSeed

NextDecoder ==
    \/ \E s \in Multiplicities, params \in RunParamLists,
          time_offs \in RunTimeOffs :
            build_input(-1, s, params, time_offs, input_params_delay)
    \/ run
    \/ match
    \/ \E input_split \in {net.input_split} \cup SplitChoices :
            build_analysis(input_split)

SpecDecoder == Init /\ [][NextDecoder]_vars

Next ==
    \/ NextDecoder
    \/ build_analysis(<<>>)
    \/ \E i \in 1..(2 * MaxN) : latencies(i)
    \/ \E i \in 1..(2 * MaxN), s \in Multiplicities, b \in BurstSizes :
            output_matrix(i, s, b)

Spec == Init /\ [][Next]_vars

(***************************************************************************)
(* Seed scopes, one after the other, on any state of the random source.    *)
(***************************************************************************)
NextSeed ==
    \/ \E seed \in SeedArgs, seq \in SeqArgs : initialize_seed(seed, seq)
    \/ draw
    \/ finalize_seed

SpecSeed == InitEncoder /\ [][NextSeed]_vars

(***************************************************************************)
(* The decoder on output lists of any length.                              *)
(***************************************************************************)
NextAnyOutput ==
    \/ \E s \in Multiplicities, params \in RunParamLists,
          time_offs \in RunTimeOffs :
            build_input(-1, s, params, time_offs, input_params_delay)
    \/ run_any
    \/ match
    \/ build_analysis(net.input_split)

SpecAnyOutput == Init /\ [][NextAnyOutput]_vars

(***************************************************************************)
(* The pool: networks built by one builder with different multiplicities   *)
(* and parameter sets are added to the pool, the pooled network runs and   *)
(* the pool demultiplexes the recording.                                   *)
(***************************************************************************)
PoolParamLists == {<<PSingle>>, <<PSingle, PSingle>>}

\* The pool's builder: one input bit per sample, the output bit set in
\* every sample (a connection exists once a sample with its input bit set
\* has been trained).
InitPool ==
    /\ InitBuilder
    /\ m = 1
    /\ \A l \in 1..N : \A j \in 1..n : mat_out[l][j] = 1
    /\ InitMem
    /\ rng = 0
    /\ InitEncode
    /\ InitMatch
    /\ InitSeed

NextPool ==
    \/ /\ Len(added) + 1 \in PoolSizes
       /\ output.status = "none"
       /\ \E s \in Multiplicities, params \in PoolParamLists,
             time_offs \in RunTimeOffs : build(-1, s, params, time_offs)
    \/ add_network
    \/ run_pool
    \/ pool_build_analysis

SpecPool == InitPool /\ [][NextPool]_vars

-----------------------------------------------------------------------------
(***************************************************************************)
(* C1: after any sequence of build_topology calls the cached memory equals *)
(* a BiNAM trained on exactly the sample pairs l in [0, k'), k' being the   *)
(* effective k of the most recent call, and last_k = k'.                   *)
(***************************************************************************)
C1_MemTrainedUpToK ==
    ~mem.none =>
        /\ last_k = EffectiveK(call_k)
        /\ mem.W = TrainRange(BiNAM(m, n), 0, EffectiveK(call_k))

-----------------------------------------------------------------------------
(***************************************************************************)
(* Vocabulary of the properties: the spikes of a set of spike trains as    *)
(* [t, k, n] records, independent of any sorting.                          *)
(***************************************************************************)
SpikeSet(times, indices) ==
    UNION {{Spike(times[i][c], indices[i][c], i - 1) : c \in DOMAIN times[i]} :
             i \in DOMAIN times}

InSpikes == SpikeSet(net.input_times, net.input_indices)

\* The input spikes that are the most recent at or before time t.
LatestAtOrBefore(t) ==
    {sp \in InSpikes : sp.t <= t /\ \A o \in InSpikes : o.t <= t => o.t <= sp.t}

\* The input spikes that are the earliest of all.
Earliest == {sp \in InSpikes : \A o \in InSpikes : sp.t <= o.t}

\* The spikes of a train with k0 <= index < k1, in order, re-based to k0.
Pairs(times, indices) == [c \in DOMAIN times |-> Spike(times[c], indices[c], 0)]

InRange(times, indices, k0, k1) ==
    SelectSeq(Pairs(times, indices), LAMBDA e : e.k >= k0 /\ e.k < k1)

\* part_times / part_indices hold, unit by unit and in order, the spikes of
\* times / indices with index in [k0, k1), re-based to k0.
PartitionOf(times, indices, part_times, part_indices, k0, k1) ==
    /\ Len(part_times) = Len(times)
    /\ Len(part_indices) = Len(times)
    /\ \A i \in DOMAIN times :
        LET sel == InRange(times[i], indices[i], k0, k1) IN
        /\ part_times[i] = [c \in DOMAIN sel |-> sel[c].t]
        /\ part_indices[i] = [c \in DOMAIN sel |-> sel[c].k - k0]

(***************************************************************************)
(* C2: match_static assigns to each output spike at time t the sample      *)
(* index of the most recent input spike, pooled over all input units, at   *)
(* or before t: an input spike at exactly t counts as preceding.           *)
(***************************************************************************)
C2_MatchInclusive ==
    matched.status = "ok" =>
        \A i \in DOMAIN matched.output_times :
            \A j \in DOMAIN matched.output_times[i] :
                LET t == matched.output_times[i][j] IN
                LatestAtOrBefore(t) # {} =>
                    matched.output_indices[i][j]
                        \in {sp.k : sp \in LatestAtOrBefore(t)}

(***************************************************************************)
(* C3: round trip: with jitter disabled, decoding the input spike times of *)
(* every unit as output spikes recovers for every spike the sample index   *)
(* recorded in input_indices.                                              *)
(***************************************************************************)
C3_RoundTrip ==
    (/\ matched.status = "ok"
     /\ output.pops = EchoOutput
     /\ JitterDisabled(in_call.params))
        => matched.output_indices = net.input_indices

(***************************************************************************)
(* C4: for a pool filled by add_network(A) then add_network(B), the pool's *)
(* build_analysis on the pooled recording (A's populations, then B's)      *)
(* returns, in order, the units NetworkInstance.build_analysis returns for *)
(* A on A's slice of the recording followed by those for B on B's slice:   *)
(* one unit per spatial and temporal slice, the input spikes of a unit     *)
(* being those of its own network and cut only.                            *)
(***************************************************************************)
\* The recordings of the populations of the i-th network added.
PopulationsBefore(i) == SeqSum([j \in 1..(i - 1) |-> Len(added[j].populations)])

OutputSlice(i) ==
    SubSeq(output.pops, PopulationsBefore(i) + 1,
           PopulationsBefore(i) + Len(added[i].populations))

\* added[i].build_analysis(recording of added[i])
InstanceAnalysis(i) ==
    build_analysis_static(added[i].input_times, added[i].input_indices,
                          OutputSlice(i), added[i].input_split)

\* The units c+1 .. c+Len(cut) are the temporal partitions of network i.
UnitsOf(i, c) ==
    LET cut == added[i].input_split
        out == match_static(added[i].input_times, added[i].input_indices,
                            OutputSlice(i))
    IN \A p \in DOMAIN cut :
        LET a == analyses.list[c + p]
            k0 == IF p = 1 THEN 0 ELSE cut[p - 1]
        IN /\ PartitionOf(added[i].input_times, added[i].input_indices,
                          a.input_times, a.input_indices, k0, cut[p])
           /\ Len(a.output_times) =
                Len(added[i].populations) - Len(added[i].input_times)
           /\ \A u \in DOMAIN a.output_times :
                \A t \in DOMAIN a.output_times[u] :
                    \E t0 \in DOMAIN out.output_times[u] :
                        a.output_times[u][t] = out.output_times[u][t0]

C4_PoolAnalysis ==
    (analyses.status # "none" /\ Len(added) = 2) =>
        LET a == InstanceAnalysis(1)
            b == InstanceAnalysis(2)
        IN /\ a.status = "ok" /\ b.status = "ok" /\ analyses.status = "ok"
           /\ analyses.list = a.list \o b.list
           /\ Len(analyses.list) =
                Len(added[1].input_split) + Len(added[2].input_split)
           /\ UnitsOf(1, 0)
           /\ UnitsOf(2, Len(added[1].input_split))

\* Reached: two networks of different size and different numbers of
\* parameter sets, with connections, each with an output spike that
\* appears in one of its units.
C4_Witness ==
    /\ analyses.status = "ok"
    /\ Len(added) = 2
    /\ Len(added[1].populations) # Len(added[2].populations)
    /\ Len(added[1].input_split) = 2
    /\ Len(added[2].input_split) = 1
    /\ added[2].connections # <<>>
    /\ Len(analyses.list) = 3
    /\ \E c \in 1..2 : \E u \in DOMAIN analyses.list[c].output_times :
            analyses.list[c].output_times[u] # <<>>
    /\ \E u \in DOMAIN analyses.list[3].output_times :
            analyses.list[3].output_times[u] # <<>>

(***************************************************************************)
(* C5: temporal splitting is a partition with re-basing: for cut points    *)
(* k1 < k2 < ... < kP (k0 = 0) partition p holds, unit by unit and in the  *)
(* original order, exactly the input and output spikes with sample index   *)
(* in [k(p-1), kp), their times unchanged and their index re-based to      *)
(* index - k(p-1); so a spike is in no other partition and a spike with    *)
(* index >= kP is in none.                                                 *)
(***************************************************************************)
C5_TemporalPartition ==
    (analyses.status = "ok" /\ analyses.input_split # <<>>) =>
        LET cut == analyses.input_split IN
        /\ Len(analyses.list) = Len(cut)
        /\ \A p \in DOMAIN cut :
            LET k0 == IF p = 1 THEN 0 ELSE cut[p - 1]
                a == analyses.list[p]
            IN /\ PartitionOf(net.input_times, net.input_indices,
                              a.input_times, a.input_indices, k0, cut[p])
               /\ PartitionOf(matched.output_times, matched.output_indices,
                              a.output_times, a.output_indices, k0, cut[p])

\* Reached: a split at <<1, 3>> with an input spike in each partition, an
\* output spike in the second one and an input spike beyond the last cut.
C5_Witness ==
    /\ analyses.status = "ok"
    /\ analyses.input_split = <<1, 3>>
    /\ \E sp \in InSpikes : sp.k = 0
    /\ \E sp \in InSpikes : sp.k = 2
    /\ \E sp \in InSpikes : sp.k >= 3
    /\ \E i \in DOMAIN analyses.list[2].output_indices :
            analyses.list[2].output_indices[i] # <<>>
    /\ \E i \in DOMAIN analyses.list[2].input_indices :
            \E c \in DOMAIN analyses.list[2].input_indices[i] :
                analyses.list[2].input_indices[i][c] = 1

(***************************************************************************)
(* C6: calculate_latencies returns one entry per sample index k in         *)
(* [0, max input sample index]; the entry is +infinity exactly when sample *)
(* k has no input spike or no matched output spike, and otherwise it is    *)
(* the difference of the time of the latest output spike matched to k and  *)
(* the time of the latest input spike of sample k, a non-negative value    *)
(* when that output spike is not earlier than that input spike (causally   *)
(* consistent spike times).                                                *)
(***************************************************************************)
LatestTime(spikes, k) ==
    CHOOSE t \in {sp.t : sp \in {sp \in spikes : sp.k = k}} :
        \A sp \in spikes : sp.k = k => sp.t <= t

C6_Latencies ==
    lat.status = "ok" =>
        LET a == analyses.list[lat.of]
            ins == SpikeSet(a.input_times, a.input_indices)
            outs == SpikeSet(a.output_times, a.output_indices)
            top == CHOOSE k \in {sp.k : sp \in ins} : \A sp \in ins : sp.k <= k
        IN /\ Len(lat.res) = top + 1
           /\ \A k \in 0..top :
                LET none == (\A sp \in ins : sp.k # k) \/ (\A sp \in outs : sp.k # k)
                IN /\ lat.res[k + 1].inf <=> none
                   /\ ~none =>
                        /\ lat.res[k + 1].v =
                              LatestTime(outs, k) - LatestTime(ins, k)
                        /\ (LatestTime(outs, k) >= LatestTime(ins, k)
                                => lat.res[k + 1].v >= 0)

(***************************************************************************)
(* C7: calculate_output_matrix returns an N x n matrix (N = max input      *)
(* sample index + 1, n = output neurons // s) whose entry (k, j) is the    *)
(* number of output spikes matched to sample k on the neurons j*s ..       *)
(* j*s + s - 1, divided by the multiplicity s and by output_burst_size.    *)
(***************************************************************************)
C7_OutputMatrix ==
    omat.status = "ok" =>
        LET a == analyses.list[omat.of]
            ins == SpikeSet(a.input_times, a.input_indices)
            outs == SpikeSet(a.output_times, a.output_indices)
            rows == IF ins = {} THEN 1
                    ELSE 1 + CHOOSE k \in {sp.k : sp \in ins} :
                                \A sp \in ins : sp.k <= k
            cols == Len(a.output_times) \div omat.s
            \* spikes are counted with their position: equal times count twice
            cnt(k, j) == Cardinality(
                {ic \in UNION {{<<i, c>> : c \in DOMAIN a.output_times[i]} :
                                 i \in DOMAIN a.output_times} :
                    /\ a.output_indices[ic[1]][ic[2]] = k
                    /\ (ic[1] - 1) \div omat.s = j})
        IN /\ Len(omat.res) = rows
           /\ \A k \in 0..(rows - 1) :
                /\ Len(omat.res[k + 1]) = cols
                /\ \A j \in 0..(cols - 1) :
                    omat.res[k + 1][j + 1].num * omat.s * omat.output_burst_size
                        = cnt(k, j) * omat.res[k + 1][j + 1].den

(***************************************************************************)
(* C8 (as stated): an output spike that precedes every input spike, or     *)
(* that occurs when there is no input spike at all, is assigned sample     *)
(* index 0, whatever the input spike trains.                               *)
(***************************************************************************)
C8_PrecedingGetsZero ==
    matched.status = "ok" =>
        \A i \in DOMAIN matched.output_times :
            \A j \in DOMAIN matched.output_times[i] :
                (\A sp \in InSpikes : matched.output_times[i][j] < sp.t)
                    => matched.output_indices[i][j] = 0

(***************************************************************************)
(* C8 (amended): an output spike that precedes every input spike is        *)
(* assigned the sample index of an earliest input spike (the first of the  *)
(* pooled, time-sorted input spikes), which is not 0 when that spike       *)
(* belongs to another sample; it is assigned 0 when there is no input      *)
(* spike at all.  No flag, no error.                                       *)
(***************************************************************************)
C8_PrecedingGetsEarliest ==
    matched.status = "ok" =>
        \A i \in DOMAIN matched.output_times :
            \A j \in DOMAIN matched.output_times[i] :
                (\A sp \in InSpikes : matched.output_times[i][j] < sp.t) =>
                    IF InSpikes = {} THEN matched.output_indices[i][j] = 0
                    ELSE matched.output_indices[i][j]
                            \in {sp.k : sp \in Earliest}

\* Reached: an output spike before every input spike, the earliest input
\* spike being one of sample 1.
C8_Witness ==
    /\ matched.status = "ok"
    /\ InSpikes # {}
    /\ \A sp \in Earliest : sp.k = 1
    /\ \E i \in DOMAIN matched.output_times :
        \E j \in DOMAIN matched.output_times[i] :
            /\ \A sp \in InSpikes : matched.output_times[i][j] < sp.t
            /\ matched.output_indices[i][j] = 1

(***************************************************************************)
(* C9: zero samples degrade to empty results rather than failing:          *)
(* build_input with zero samples returns an empty spike train and index    *)
(* list for every input unit plus a split descriptor without raising, and  *)
(* build_analysis_static and calculate_latencies applied to spike          *)
(* collections without spikes return empty results without raising.        *)
(***************************************************************************)
NoSpikes(trains) == \A i \in DOMAIN trains : trains[i] = <<>>

C9_ZeroSamplesDegrade ==
    /\ (in_call # NoCall /\ EffectiveK(in_call.k) = 0) =>
            /\ net.status = "ok"
            /\ Len(net.input_times) = in_call.s * m
            /\ NoSpikes(net.input_times) /\ NoSpikes(net.input_indices)
    /\ (analyses.status # "none" /\ NoSpikes(net.input_times)
            /\ NoSpikes(output.pops)) =>
            /\ analyses.status = "ok"
            /\ \A p \in DOMAIN analyses.list :
                /\ NoSpikes(analyses.list[p].input_times)
                /\ NoSpikes(analyses.list[p].output_times)
    /\ (lat.status # "none" /\ NoSpikes(analyses.list[lat.of].input_times)
            /\ NoSpikes(analyses.list[lat.of].output_times)) =>
            lat.status = "ok" /\ lat.res = <<>>

(***************************************************************************)
(* C10: with P parameter sets and an effective sample count k >= 1 the     *)
(* split descriptor is [k, 2k, ..., P*k], and the spikes generated for     *)
(* sample l under parameter set p (0-based) carry the index p*k + l: unit  *)
(* i*s + j holds burst_size spikes of index p*k + l when bit i of sample l *)
(* is set and none when it is clear (a sample without an active bit still  *)
(* consumes its index), and no index outside [0, P*k).  Without jitter the *)
(* spikes of index p*k + l are the burst that starts at the time slot of   *)
(* sample l in block p.                                                    *)
(***************************************************************************)
CountOf(idx, g) == Cardinality({c \in DOMAIN idx : idx[c] = g})

\* The start of the time slot of global index g: k slots of time_window and
\* a pause of delay slots for every earlier block, l slots in its own.
SlotStart(g, k, params, delay) ==
    SeqSum([p \in 1..(g \div k) |-> params[p].time_window * (k + delay)])
        + (g % k) * params[(g \div k) + 1].time_window

\* The global indices whose sample has an active bit.
ActiveIndices(k, P) ==
    {g \in 0..(P * k - 1) : \E i \in 1..m : mat_in[(g % k) + 1][i] # 0}

C10_SplitDescriptor ==
    (net.status = "ok") =>
        LET k == EffectiveK(in_call.k)
            P == Len(in_call.params)
            first == CHOOSE g \in ActiveIndices(k, P) :
                        \A o \in ActiveIndices(k, P) : g <= o
            start(g) == SlotStart(g, k, in_call.params, input_params_delay)
                        - SlotStart(first, k, in_call.params, input_params_delay)
                        + in_call.time_offs
        IN /\ k >= 1
           /\ net.input_split = [p \in 1..P |-> p * k]
           /\ Len(net.input_indices) = in_call.s * m
           /\ \A x \in DOMAIN net.input_indices :
                /\ \A c \in DOMAIN net.input_indices[x] :
                        net.input_indices[x][c] \in 0..(P * k - 1)
                /\ \A p \in 0..(P - 1), l \in 0..(k - 1) :
                    LET par == in_call.params[p + 1]
                        here == {c \in DOMAIN net.input_indices[x] :
                                    net.input_indices[x][c] = p * k + l}
                    IN /\ Cardinality(here) =
                            IF mat_in[l + 1][((x - 1) \div in_call.s) + 1] # 0
                            THEN par.burst_size ELSE 0
                       /\ (JitterDisabled(in_call.params) /\ here # {}) =>
                            {net.input_times[x][c] : c \in here}
                                \subseteq {start(p * k + l) + q * par.isi :
                                              q \in 0..(par.burst_size - 1)}

\* Reached: two parameter sets, two samples of which the first has no
\* active bit, and a spike of the second block's second sample.
C10_Witness ==
    /\ net.status = "ok"
    /\ Len(in_call.params) = 2
    /\ EffectiveK(in_call.k) = 2
    /\ \A i \in 1..m : mat_in[1][i] = 0
    /\ net.input_split = <<2, 4>>
    /\ \E x \in DOMAIN net.input_indices :
        \E c \in DOMAIN net.input_indices[x] : net.input_indices[x][c] = 3

(***************************************************************************)
(* C11: every input unit x = i*s + j returned by build_input has its spike *)
(* times sorted ascending and an index list of the same length; position   *)
(* by position the index is the global sample index of the sample whose    *)
(* burst produced the spike: the time lies in the burst of that sample's   *)
(* time slot, up to the jitter of its parameter set, all times being       *)
(* shifted so that the earliest spike is at time_offs; the unit holds      *)
(* burst_size spikes per parameter set and sample l < k with bit i set and *)
(* none for a sample whose bit i is clear.                                 *)
(***************************************************************************)
Sorted(seq) == \A c \in 1..(Len(seq) - 1) : seq[c] <= seq[c + 1]

\* The largest deviation of a spike from its jitter-free time: a standard
\* draw is at most 1 in absolute value.
JitterSpan(par) == par.sigma_t + par.sigma_t_offs

\* The jitter-free, unshifted times of the burst of global index g, each
\* widened by the jitter span.
BurstWindow(g, k, params, delay) ==
    LET par == params[(g \div k) + 1] IN
    {SlotStart(g, k, params, delay) + q * par.isi + d :
        q \in 0..(par.burst_size - 1),
        d \in (0 - JitterSpan(par))..JitterSpan(par)}

C11_UnitTrains ==
    (net.status = "ok") =>
        LET k == EffectiveK(in_call.k)
            P == Len(in_call.params)
            window(g) == BurstWindow(g, k, in_call.params, input_params_delay)
            firsts == UNION {window(g) : g \in ActiveIndices(k, P)}
        IN /\ Len(net.input_times) = in_call.s * m
           /\ \A x \in DOMAIN net.input_times :
                /\ Sorted(net.input_times[x])
                /\ Len(net.input_indices[x]) = Len(net.input_times[x])
                /\ \A g \in 0..(P * k - 1) :
                        CountOf(net.input_indices[x], g) =
                            IF mat_in[(g % k) + 1][((x - 1) \div in_call.s) + 1] # 0
                            THEN in_call.params[(g \div k) + 1].burst_size ELSE 0
           /\ InSpikes # {} =>
                /\ \A sp \in InSpikes : sp.t >= in_call.time_offs
                /\ \E sp \in InSpikes : sp.t = in_call.time_offs
                /\ \E min_t \in firsts :
                    \A sp \in InSpikes :
                        sp.t - in_call.time_offs + min_t \in window(sp.k)

\* Reached: a unit in which the bursts of two samples interleave, so that
\* the sorted times alternate between the samples.
C11_Witness ==
    /\ net.status = "ok"
    /\ \E x \in DOMAIN net.input_indices :
        /\ net.input_indices[x] = <<0, 1, 0, 1>>
        /\ net.input_times[x][2] < net.input_times[x][3]

(***************************************************************************)
(* C12: add_network re-bases connections: in every step that adds a        *)
(* network to a pool of nP0 populations, each connection contributed by    *)
(* the network has its source and its target population index increased    *)
(* by nP0, its neuron indices, weight and delay unchanged; the connections *)
(* already in the pool are unchanged; and the connection list of the       *)
(* network itself is as build returned it.                                 *)
(***************************************************************************)
Rebased(c, d, nP0) ==
    /\ d[1][1] = c[1][1] + nP0 /\ d[1][2] = c[1][2]
    /\ d[2][1] = c[2][1] + nP0 /\ d[2][2] = c[2][2]
    /\ d[3] = c[3] /\ d[4] = c[4]

C12_Step ==
    (Len(added') = Len(added) + 1) =>
        LET nP0 == Len(pool.populations)
            nC0 == Len(pool.connections)
            new == topology.connections
        IN /\ Len(pool'.connections) = nC0 + Len(new)
           /\ \A i \in 1..nC0 : pool'.connections[i] = pool.connections[i]
           /\ \A i \in 1..Len(new) :
                Rebased(new[i], pool'.connections[nC0 + i], nP0)
           /\ added'[Len(added')].connections = new

C12_RebasedConnections == [][C12_Step]_vars

\* Reached: a second network with connections added to a pool that holds
\* a first network with connections; the pool's last connection starts in
\* the second network's populations.
C12_Witness ==
    /\ Len(added) = 2
    /\ added[1].connections # <<>>
    /\ Len(added[2].connections) = 4
    /\ Len(pool.connections) = Len(added[1].connections) + 4
    /\ pool.connections[Len(pool.connections)][1][1] >= Len(added[1].populations)
    /\ added[2].connections[4][1][1] < Len(added[2].populations)

(***************************************************************************)
(* C13: a build_topology call on a builder that holds a memory, whose      *)
(* effective k is equal to or smaller than the k reached by the previous   *)
(* call, starts its training from a fresh all-zero BiNAM.  StartedFrom(W0) *)
(* says that the memory after the call is W0 with the samples of the       *)
(* call's training loop, [last_k, k), folded in.                           *)
(***************************************************************************)
StartedFrom(W0) == mem'.W = TrainRange(W0, last_k, last_k')

C13_ResetOnEqualOrSmaller ==
    [][(~mem.none /\ last_k' <= last_k) => StartedFrom(BiNAM(m, n))]_vars

\* C13 as the code has it: the memory is replaced by a fresh all-zero BiNAM
\* exactly when the effective k is smaller than the k reached before; with
\* an equal or larger k the training continues on the memory as it is.
C13_ResetOnSmaller ==
    [][~mem.none =>
          IF last_k' < last_k THEN StartedFrom(BiNAM(m, n))
                             ELSE StartedFrom(mem.W)]_vars

\* Reached: an all-zero memory at k = 1 although sample 0 sets a cell, which
\* only a reset of a memory trained beyond k = 1 leaves behind.
C13_Witness ==
    /\ ~mem.none
    /\ N = 2
    /\ last_k = 1
    /\ mat_in[1][1] = 1 /\ mat_out[1][1] = 1
    /\ mem.W = BiNAM(m, n)

(***************************************************************************)
(* C14: an output list whose number of populations differs from the        *)
(* declared population count (input units plus output units) is rejected:  *)
(* neither match nor build_analysis returns a result for it.               *)
(***************************************************************************)
C14_MiscountRejected ==
    (output.status = "ok" /\ Len(output.pops) # DeclaredCount) =>
        /\ matched.status # "ok"
        /\ analyses.status # "ok"

(***************************************************************************)
(* C15: without a temporal split descriptor, and with at least one input   *)
(* spike overall (single units may be silent), build_analysis_static       *)
(* returns exactly one analysis unit, which spans the samples              *)
(* [0, max_sample_index + 1) and holds every input spike and every matched *)
(* output spike with unchanged unit, time and sample index.                *)
(***************************************************************************)
C15_SingleDefaultPartition ==
    (analyses.status # "none" /\ analyses.input_split = <<>>
        /\ SpikeSet(net.input_times, net.input_indices) # {}) =>
        /\ analyses.status = "ok"
        /\ Len(analyses.list) = 1
        /\ analyses.list[1].input_times = net.input_times
        /\ analyses.list[1].input_indices = net.input_indices
        /\ analyses.list[1].output_times = matched.output_times
        /\ analyses.list[1].output_indices = matched.output_indices

(***************************************************************************)
(* C16: scoped seed save/restore.  With a seed that is not None,           *)
(* initialize_seed returns the state S the source was in and reseeds the   *)
(* source with (seed * (seq + 1)) mod 2^30, and finalize_seed(old), after  *)
(* any number of draws in between, puts the source back into S.  With seed *)
(* None, initialize_seed returns None and neither function changes the     *)
(* state of the source: it is S advanced by the draws made.                *)
(***************************************************************************)
RECURSIVE Advanced(_, _)
Advanced(r, draws) == IF draws = 0 THEN r ELSE Advanced(NextRng(r), draws - 1)

C16_SeedScope ==
    LET S == seed_call.entry
        X == (seed_call.seed.v * (seed_call.seq + 1)) % 1073741824
    IN /\ (seed_call.phase = "scoped" /\ ~seed_call.seed.none) =>
            /\ old_state = Some(S)
            /\ rng = Advanced(seed_state(X), seed_call.draws)
       /\ (seed_call.phase = "done" /\ ~seed_call.seed.none) => rng = S
       /\ (seed_call.phase # "idle" /\ seed_call.seed.none) =>
            /\ old_state = None
            /\ rng = Advanced(S, seed_call.draws)

\* Reached: a scope with a seed has been left after two draws, and the state
\* restored is neither the state seeded nor the state the draws led to.
C16_Witness ==
    /\ seed_call.phase = "done"
    /\ ~seed_call.seed.none
    /\ seed_call.draws = 2
    /\ seed_call.seed.v = 2 ^ 29
    /\ seed_call.seq = 2
    /\ rng = seed_call.entry
    /\ rng # seed_state(536870912)
    /\ rng # Advanced(seed_state(536870912), 2)

(***************************************************************************)
(* C17: for the input spike trains of every analysis unit,                 *)
(* flaten(times, indices, sort_by_sample=True) returns all of their        *)
(* (time, sample index, neuron) triples ordered by non-decreasing sample   *)
(* index, and by time within one sample; hence for each sample k the       *)
(* positions from bisect_left(kIn, k) up to bisect_right(kIn, k) hold      *)
(* exactly the spikes of sample k.                                         *)
(***************************************************************************)
BySample(f) ==
    \A c \in 1..(Len(f) - 1) :
        \/ f[c].k < f[c + 1].k
        \/ f[c].k = f[c + 1].k /\ f[c].t <= f[c + 1].t

C17_FlatenBySample ==
    analyses.status = "ok" =>
        \A p \in DOMAIN analyses.list :
            LET a == analyses.list[p]
                f == flaten(a.input_times, a.input_indices, TRUE)
                kIn == Samples(f)
            IN ~FlatenRaises(a.input_times) =>
                /\ Len(f) = SeqSum([i \in DOMAIN a.input_times |->
                                        Len(a.input_times[i])])
                /\ {f[c] : c \in DOMAIN f}
                        = SpikeSet(a.input_times, a.input_indices)
                /\ BySample(f)
                /\ \A k \in {f[c].k : c \in DOMAIN f} :
                        {c \in DOMAIN f : f[c].k = k}
                            = (bisect_left(kIn, k) + 1)..bisect_right(kIn, k)

=============================================================================
